---- MODULE Spec2Model ----
(***************************************************************************)
(* The Happy House notebook (kerasTutorial_HappyHouse): HappyModel builds  *)
(* a fixed chain of Keras layers, the model is compiled, trained with      *)
(* fit() and tested with evaluate().  The layers' tensors are followed by  *)
(* their shapes; the numeric content of a tensor is abstracted to one      *)
(* scalar per example (one pixel, one channel, one filter), so that every  *)
(* stage still computes what its layer computes on that scalar.            *)
(*                                                                         *)
(* The two TensorFlow tutorials (tensorFlowTutorial1, tensorFlowTutorial2) *)
(* minimise a quadratic cost of one float32 variable w by gradient         *)
(* descent; their arithmetic is followed bit by bit (specification SpecTF).*)
(***************************************************************************)
EXTENDS Integers, Sequences, FiniteSets, TLC

VARIABLES
    input_shape,   \* the argument of HappyModel
    X,             \* shape of the tensor the next layer is applied to
    layers,        \* the layers added so far, as model.summary() lists them
    pc,            \* position in the notebook
    err,           \* the error the last statement raised, "none" if none
    weights,       \* the layers' parameters (NoWeights before they exist)
    data,          \* X_train/Y_train and X_test/Y_test as loaded
    call,          \* the fit/evaluate/predict call in progress or last made
    history,       \* the History the last fit call returned
    preds,         \* what the last evaluate call returned
    prev_preds,    \* what the evaluate call before it returned
    calls,         \* the calls made so far on the model, in order
    tutorial,      \* the TensorFlow tutorial that is run: 1, 2, or 0 for none
    session,       \* the tf.Session: whether init was run, and the value it holds for w
    fetched,       \* what the last session.run returned
    runs           \* the number of session.run(train) made so far

tf_vars == <<tutorial, session, fetched, runs>>

keras_vars == <<input_shape, X, layers, pc, err, weights, data, call, history,
                preds, prev_preds, calls>>

vars == <<input_shape, X, layers, pc, err, weights, data, call, history,
          preds, prev_preds, calls, tutorial, session, fetched, runs>>

ncalls == Len(calls)

-----------------------------------------------------------------------------
(* Bounds of the model *)

MaxDim == 2        \* small input heights and widths range over 0..MaxDim
MaxN == 2          \* small datasets hold 0..MaxN examples
MaxEpochs == 1     \* epochs argument of a free fit call: 0..MaxEpochs
MaxBatch == 3      \* batch_size argument of a free fit call: 1..MaxBatch
MaxCalls == 3      \* fit/evaluate/predict calls per run

(* Constants of the notebook *)

ImgSize == 64              \* HappyModel((64,64,3))
ImgChannels == 3
PadSize == 3               \* ZeroPadding2D((3,3))
ConvFilters == 32          \* Conv2D(32, (7,7), strides = (1,1))
ConvKernel == 7
ConvStride == 1
PoolSize == 2              \* MaxPooling2D((2,2)), strides default to the pool size
DenseUnits == 1            \* Dense(1, activation = 'sigmoid')
NTrain == 600
NTest == 150
FitEpochs == 40            \* fit(..., epochs = 40, batch_size = 16)
FitBatchSize == 16
EvalBatchSize == 32        \* evaluate() without batch_size: Keras' default

-----------------------------------------------------------------------------
(* Shapes and parameter counts of the layers HappyModel uses *)

Prod(s) == IF Len(s) = 0 THEN 1
           ELSE IF Len(s) = 1 THEN s[1]
           ELSE IF Len(s) = 2 THEN s[1] * s[2]
           ELSE s[1] * s[2] * s[3]

\* Input(input_shape): a placeholder of that shape (the batch axis left out)
Input(shape) == shape

\* A 2D layer needs (rows, cols, channels) behind the batch axis
NeedsRank3(s) == Len(s) = 3

\* ZeroPadding2D((p,p)): p rows/columns of zeros on each side
ZeroPadding2D_shape(s, p) == <<s[1] + 2 * p, s[2] + 2 * p, s[3]>>

\* output length of a 'valid' window of size k moved by stride
conv_output_length(n, k, stride) == ((n - k + 1) + stride - 1) \div stride

WindowFits_Unchecked(s, k) == TRUE

\* a window larger than the feature map leaves a negative dimension
WindowFits(s, k) == s[1] >= k /\ s[2] >= k

Conv2D_shape_SamePadding(s, filters, k, stride) == <<s[1], s[2], filters>>

Conv2D_shape(s, filters, k, stride) ==
    <<conv_output_length(s[1], k, stride), conv_output_length(s[2], k, stride), filters>>

Conv2D_params(s, filters, k) == k * k * s[3] * filters + filters

BatchNormalization_trainable(s) == 2 * s[3]

BatchNormalization_params_GammaBetaOnly(s) == 2 * s[3]

\* BatchNormalization(axis = 3): gamma, beta, moving mean, moving variance per channel
BatchNormalization_params(s) == 4 * s[3]

MaxPooling2D_shape(s, k) ==
    <<conv_output_length(s[1], k, k), conv_output_length(s[2], k, k), s[3]>>

Flatten_shape(s) == <<Prod(s)>>

Dense_shape(s, units) == <<units>>

Dense_params(s, units) == s[1] * units + units

Layer(name, in, out, params, trainable) ==
    [name |-> name, input |-> in, output |-> out, params |-> params, trainable |-> trainable]

RECURSIVE SumField(_, _)
SumField(ls, f) == IF ls = <<>> THEN 0 ELSE ls[1][f] + SumField(Tail(ls), f)

\* model.summary(): Total params / Trainable params
TotalParams == SumField(layers, "params")

TrainableParams == SumField(layers, "trainable")

-----------------------------------------------------------------------------
(* Parameters.  Each parameterised stage keeps one scalar; bn0 also keeps  *)
(* its moving mean, which is not trainable.                                *)

NoWeights == [conv0 |-> 0, bn0 |-> 0, bn0_mean |-> 0, fc |-> 0]

KernelValues == {-1, 1}      \* a kernel drawn by the random initializer, or trained

MeanValues == {0, 1}

WeightSpace == [conv0 : KernelValues, bn0 : KernelValues, bn0_mean : MeanValues,
                fc : KernelValues]

-----------------------------------------------------------------------------
(* HappyModel(input_shape), one layer call per step *)

Raise(kind) == /\ pc' = "failed"
               /\ err' = kind

AddLayer(l, next) == /\ layers' = Append(layers, l)
                     /\ X' = l.output
                     /\ pc' = next
                     /\ err' = "none"

BuildFrame == UNCHANGED <<input_shape, data, call, history, preds, prev_preds, calls, tf_vars>>

\* X_input = Input(input_shape)
CallInput ==
    /\ pc = "Input"
    /\ AddLayer(Layer("input_1", input_shape, Input(input_shape), 0, 0), "ZeroPadding2D")
    /\ UNCHANGED weights
    /\ BuildFrame

\* X = ZeroPadding2D((3,3))(X_input)
CallZeroPadding2D ==
    /\ pc = "ZeroPadding2D"
    /\ IF NeedsRank3(X)
       THEN AddLayer(Layer("zero_padding2d_1", X, ZeroPadding2D_shape(X, PadSize), 0, 0), "conv0")
       ELSE Raise("ShapeError") /\ UNCHANGED <<layers, X>>
    /\ UNCHANGED weights
    /\ BuildFrame

\* X = Conv2D(32, (7,7), strides = (1,1), name = 'conv0')(X)
CallConv2D ==
    /\ pc = "conv0"
    /\ IF WindowFits(X, ConvKernel)
       THEN /\ AddLayer(Layer("conv0", X, Conv2D_shape(X, ConvFilters, ConvKernel, ConvStride),
                              Conv2D_params(X, ConvFilters, ConvKernel),
                              Conv2D_params(X, ConvFilters, ConvKernel)), "bn0")
            /\ \E k \in KernelValues : weights' = [weights EXCEPT !.conv0 = k]
       ELSE Raise("ShapeError") /\ UNCHANGED <<layers, X, weights>>
    /\ BuildFrame

\* X = BatchNormalization(axis = 3, name = 'bn0')(X): gamma starts at 1, the moving mean at 0
CallBatchNormalization ==
    /\ pc = "bn0"
    /\ AddLayer(Layer("bn0", X, X, BatchNormalization_params(X),
                      BatchNormalization_trainable(X)), "relu")
    /\ weights' = [weights EXCEPT !.bn0 = 1, !.bn0_mean = 0]
    /\ BuildFrame

\* X = Activation('relu')(X)
CallActivation ==
    /\ pc = "relu"
    /\ AddLayer(Layer("activation_1", X, X, 0, 0), "max_pool")
    /\ UNCHANGED weights
    /\ BuildFrame

\* X = MaxPooling2D((2,2), name = 'max_pool')(X)
CallMaxPooling2D ==
    /\ pc = "max_pool"
    /\ IF WindowFits(X, PoolSize)
       THEN AddLayer(Layer("max_pool", X, MaxPooling2D_shape(X, PoolSize), 0, 0), "Flatten")
       ELSE Raise("ShapeError") /\ UNCHANGED <<layers, X>>
    /\ UNCHANGED weights
    /\ BuildFrame

\* X = Flatten()(X)
CallFlatten ==
    /\ pc = "Flatten"
    /\ AddLayer(Layer("flatten_1", X, Flatten_shape(X), 0, 0), "fc")
    /\ UNCHANGED weights
    /\ BuildFrame

\* X = Dense(1, activation = 'sigmoid', name = 'fc')(X)
CallDense ==
    /\ pc = "fc"
    /\ AddLayer(Layer("fc", X, Dense_shape(X, DenseUnits), Dense_params(X, DenseUnits),
                      Dense_params(X, DenseUnits)), "Model")
    /\ \E k \in KernelValues : weights' = [weights EXCEPT !.fc = k]
    /\ BuildFrame

\* model = Model(inputs = X_input, outputs = X, name = 'HappyModel'); return model
ReturnModel ==
    /\ pc = "Model"
    /\ pc' = "compile"
    /\ UNCHANGED <<input_shape, X, layers, err, weights, data, call, history, preds,
                   prev_preds, calls, tf_vars>>

\* happyModel.compile(optimizer = 'Adam', loss = 'binary_crossentropy', metrics = ['accuracy'])
Compile ==
    /\ pc = "compile"
    /\ pc' = "ready"
    /\ UNCHANGED <<input_shape, X, layers, err, weights, data, call, history, preds,
                   prev_preds, calls, tf_vars>>

HappyModel == \/ CallInput
              \/ CallZeroPadding2D
              \/ CallConv2D
              \/ CallBatchNormalization
              \/ CallActivation
              \/ CallMaxPooling2D
              \/ CallFlatten
              \/ CallDense
              \/ ReturnModel

\* the model exists: HappyModel returned it
Built == pc \in {"compile", "ready", "fit"}

-----------------------------------------------------------------------------
(* Datasets.  A dataset is described by its number of examples n, the      *)
(* number of labels ny, and the shape of one example; example i carries    *)
(* the scalar Feature(d, i) and the label Label(d, i).                     *)

Dataset(n, ny, shape, seed) == [n |-> n, ny |-> ny, shape |-> shape, seed |-> seed]

Feature(d, i) == ((3 * i + d.seed) % 5) - 2

Label(d, i) == ((i + d.seed) \div 2) % 2

ImgShape == <<ImgSize, ImgSize, ImgChannels>>

\* load_dataset(): X_train (600, 64, 64, 3), Y_train (600, 1), X_test (150, 64, 64, 3), Y_test (150, 1)
load_dataset == [train |-> Dataset(NTrain, NTrain, ImgShape, 0),
                 test |-> Dataset(NTest, NTest, ImgShape, 1)]

\* examples without the channel axis: no model built by HappyModel takes them
FlatShape == <<ImgSize, ImgSize>>

\* what another caller may hold: small training sets, test sets that may be empty,
\* a training set with a label too many, one of examples of another shape.
\* (What fit does with no example at all is not fixed by the notebook: no training
\* set is empty.)
SmallData ==
    { [train |-> Dataset(n, n, ImgShape, 0), test |-> Dataset(MaxN - n, MaxN - n, ImgShape, 1)] :
        n \in 1..MaxN }
    \cup { [train |-> Dataset(MaxN, MaxN + 1, ImgShape, 0), test |-> Dataset(1, 1, ImgShape, 1)],
           [train |-> Dataset(MaxN, MaxN, FlatShape, 0), test |-> Dataset(1, 1, ImgShape, 1)] }

InputShapes ==
    {ImgShape, <<ImgSize, ImgSize>>} \cup { <<h, w, ImgChannels>> : h, w \in 0..MaxDim }

Notebook == data = load_dataset

-----------------------------------------------------------------------------
(* The forward pass on one example, stage by stage, in test mode *)

Relu(z) == IF z > 0 THEN z ELSE 0

\* the logit the fc stage hands to the sigmoid
Logit(w, x) ==
    LET padded == x                               \* zeros are added around the pixel
        conv == w.conv0 * padded
        bn == w.bn0 * (conv - w.bn0_mean)         \* moving statistics, not the batch's
        act == Relu(bn)
        pooled == act
        flat == pooled
    IN  w.fc * flat

\* the thresholded sigmoid output: sigmoid(z) > 1/2 exactly when z > 0
PredictedClass(w, x) == IF Logit(w, x) > 0 THEN 1 ELSE 0

\* 1000 * ln(1 + e^z), rounded; logits stay within -3..3
Softplus(z) == CASE z = -3 -> 49 [] z = -2 -> 127 [] z = -1 -> 313 [] z = 0 -> 693
                 [] z = 1 -> 1313 [] z = 2 -> 2127 [] z = 3 -> 3049

\* binary_crossentropy of one example, in thousandths
ExampleLoss(w, x, y) == IF y = 1 THEN Softplus(-Logit(w, x)) ELSE Softplus(Logit(w, x))

-----------------------------------------------------------------------------
(* Batches *)

make_batches_DropShortBatch(size, batch_size) ==
    [k \in 1..(size \div batch_size) |->
        [start |-> (k - 1) * batch_size, end |-> k * batch_size]]

\* the slices [start, end) of size examples taken batch_size at a time
make_batches(size, batch_size) ==
    LET nb == (size + batch_size - 1) \div batch_size
        Min(a, b) == IF a < b THEN a ELSE b
    IN  [k \in 1..nb |-> [start |-> (k - 1) * batch_size, end |-> Min(size, k * batch_size)]]

BatchIndices_EndIncluded(b) == b.start .. b.end

BatchIndices(b) == b.start .. (b.end - 1)

RECURSIVE SumOver(_, _)
SumOver(S, f) == IF S = {} THEN 0
                 ELSE LET i == CHOOSE j \in S : TRUE IN f[i] + SumOver(S \ {i}, f)

-----------------------------------------------------------------------------
(* Calls on the compiled model *)

NoCall == [op |-> "none", x |-> "none", epochs |-> 0, batch_size |-> 0, epoch |-> 0,
           batch |-> 0, updates |-> 0, seen |-> <<>>, status |-> "none"]

NewCall(op, x, epochs, batch_size, status) ==
    [op |-> op, x |-> x, epochs |-> epochs, batch_size |-> batch_size, epoch |-> 0,
     batch |-> 0, updates |-> 0, seen |-> <<>>, status |-> status]

NoPreds == [x |-> "none", loss |-> 0, correct |-> 0, n |-> 0, at |-> 0]

standardize_user_data_BatchWithinData(d, batch_size) ==
    IF d.shape # input_shape THEN "ShapeError"
    ELSE IF d.ny # d.n \/ batch_size > d.n THEN "DataError"
    ELSE "none"

\* the check of the arrays against the model before any batch is run:
\* the examples' shape against the model's input, then the numbers of examples and labels
standardize_user_data(d, batch_size) ==
    IF d.shape # input_shape THEN "ShapeError"
    ELSE IF d.ny # d.n THEN "DataError"
    ELSE "none"

\* predict() is given no labels: only the shape is checked
standardize_input(d) == IF d.shape # input_shape THEN "ShapeError" ELSE "none"

\* the fit calls made: the notebook's cell, or any small call of another caller
FitArguments ==
    IF Notebook
    THEN {[x |-> "train", epochs |-> FitEpochs, batch_size |-> FitBatchSize]}
    ELSE [x : {"train"}, epochs : 0..MaxEpochs, batch_size : 1..MaxBatch]

EvaluateArguments == IF Notebook THEN {"test"} ELSE {"train", "test"}

\* the notebook runs fit (cell 6) and then evaluate (cell 7)
MayFit == pc = "ready" /\ ncalls < MaxCalls /\ (Notebook => ncalls = 0)

MayEvaluate == pc = "ready" /\ ncalls < MaxCalls /\ (Notebook => ncalls > 0)

MayPredict == pc = "ready" /\ ncalls < MaxCalls /\ ~Notebook

RaiseFromCall_CarryOn(op, a, kind) ==
    /\ call' = NewCall(op, a.x, a.epochs, a.batch_size, "raised")
    /\ err' = kind
    /\ pc' = IF op = "fit" THEN "fit" ELSE "ready"
    /\ UNCHANGED <<weights, history, preds, prev_preds>>

\* an exception leaves the call and reaches the caller; the model stays usable
RaiseFromCall(op, a, kind) ==
    /\ call' = NewCall(op, a.x, a.epochs, a.batch_size, "raised")
    /\ err' = kind
    /\ pc' = "ready"
    /\ UNCHANGED <<weights, history, preds, prev_preds>>

StartFit_Reinitialize(a) ==
    /\ call' = NewCall("fit", a.x, a.epochs, a.batch_size, "running")
    /\ err' = "none"
    /\ pc' = "fit"
    /\ history' = <<>>
    /\ weights' = [weights EXCEPT !.bn0 = 1, !.bn0_mean = 0]
    /\ UNCHANGED <<preds, prev_preds>>

\* the training loop starts: a new History, no epoch run yet; the parameters are kept
StartFit(a) ==
    /\ call' = NewCall("fit", a.x, a.epochs, a.batch_size, "running")
    /\ err' = "none"
    /\ pc' = "fit"
    /\ history' = <<>>
    /\ UNCHANGED <<weights, preds, prev_preds>>

\* happyModel.fit(x = ..., y = ..., epochs = ..., batch_size = ...)
FitBegin(a) ==
    /\ MayFit
    /\ calls' = Append(calls, "fit")
    /\ LET d == data[a.x]
           e == standardize_user_data(d, a.batch_size)
       IN  \/ e # "none" /\ RaiseFromCall("fit", a, e)
           \/ e = "none" /\ StartFit(a)
    /\ UNCHANGED <<input_shape, X, layers, data, tf_vars>>

Batches == make_batches(data[call.x].n, call.batch_size)

BatchSize(b) == b.end - b.start

RECURSIVE SamplesSeen(_)
SamplesSeen(bs) == IF bs = <<>> THEN 0 ELSE BatchSize(bs[1]) + SamplesSeen(Tail(bs))

train_on_batch_UpdatePerExample(b) ==
    /\ weights' \in WeightSpace
    /\ call' = [call EXCEPT !.batch = @ + 1, !.updates = @ + BatchSize(b), !.seen = Append(@, b)]

\* one batch: the optimizer updates the trainable parameters, bn0 its moving mean
train_on_batch(b) ==
    /\ weights' \in WeightSpace
    /\ call' = [call EXCEPT !.batch = @ + 1, !.updates = @ + 1, !.seen = Append(@, b)]

MoreEpochs_AtLeastOne == call.epoch < call.epochs \/ call.epoch = 0

\* for epoch in range(epochs)
MoreEpochs == call.epoch < call.epochs

FitBatch ==
    /\ pc = "fit"
    /\ MoreEpochs
    /\ call.batch < Len(Batches)
    /\ train_on_batch(Batches[call.batch + 1])
    /\ UNCHANGED <<input_shape, X, layers, pc, err, data, history, preds, prev_preds, calls,
                   tf_vars>>

\* the epoch's line of the log ("Epoch 3/40", "600/600") and its entry in the History
\* (the loss and accuracy of the line depend on the optimizer's steps and are not followed)
FitEpochEnd ==
    /\ pc = "fit"
    /\ MoreEpochs
    /\ call.batch = Len(Batches)
    /\ history' = Append(history, [epoch |-> call.epoch + 1, samples |-> SamplesSeen(call.seen)])
    /\ call' = [call EXCEPT !.epoch = @ + 1, !.batch = 0, !.seen = <<>>]
    /\ UNCHANGED <<input_shape, X, layers, pc, err, weights, data, preds, prev_preds, calls,
                   tf_vars>>

FitReturn ==
    /\ pc = "fit"
    /\ ~MoreEpochs
    /\ call' = [call EXCEPT !.status = "returned"]
    /\ pc' = "ready"
    /\ UNCHANGED <<input_shape, X, layers, err, weights, data, history, preds, prev_preds,
                   calls, tf_vars>>

Fit == \/ \E a \in FitArguments : FitBegin(a)
       \/ FitBatch
       \/ FitEpochEnd
       \/ FitReturn

-----------------------------------------------------------------------------
(* evaluate and predict *)

BatchLoss(w, d, b) ==
    SumOver(BatchIndices(b), [i \in BatchIndices(b) |-> ExampleLoss(w, Feature(d, i), Label(d, i))])

BatchCorrect(w, d, b) ==
    Cardinality({i \in BatchIndices(b) : PredictedClass(w, Feature(d, i)) = Label(d, i)})

\* the test loop: the batches' losses and hits, weighted by the batch sizes, over all examples
test_loop(w, d, batch_size) ==
    LET bs == make_batches(d.n, batch_size)
    IN  [loss |-> SumOver(DOMAIN bs, [k \in DOMAIN bs |-> BatchLoss(w, d, bs[k])]) \div d.n,
         correct |-> SumOver(DOMAIN bs, [k \in DOMAIN bs |-> BatchCorrect(w, d, bs[k])]),
         n |-> d.n]

test_function_updates_TrainingPhase(w) == [w EXCEPT !.bn0_mean = 1 - @]

\* the model's parameters after a pass in test mode: no update is run
test_function_updates(w) == w

ReturnPreds(x, r) ==
    /\ call' = NewCall("evaluate", x, 0, EvalBatchSize, "returned")
    /\ err' = "none"
    /\ prev_preds' = preds
    /\ preds' = [x |-> x, loss |-> r.loss, correct |-> r.correct, n |-> r.n, at |-> ncalls + 1]
    /\ weights' = test_function_updates(weights)
    /\ UNCHANGED <<pc, history>>

\* preds = happyModel.evaluate(x = ..., y = ...)
Evaluate(x) ==
    /\ MayEvaluate
    /\ calls' = Append(calls, "evaluate")
    /\ LET d == data[x]
           a == [x |-> x, epochs |-> 0, batch_size |-> EvalBatchSize]
           e == standardize_user_data(d, EvalBatchSize)
       IN  \/ e # "none" /\ RaiseFromCall("evaluate", a, e)
           \/ e = "none" /\ d.n > 0 /\ ReturnPreds(x, test_loop(weights, d, EvalBatchSize))
           \* what evaluate returns for no example at all is not fixed by the notebook
           \/ e = "none" /\ d.n = 0 /\ RaiseFromCall("evaluate", a, "DataError")
           \/ e = "none" /\ d.n = 0 /\ ReturnPreds(x, [loss |-> 0, correct |-> 0, n |-> 0])
    /\ UNCHANGED <<input_shape, X, layers, data, tf_vars>>

\* happyModel.predict(x): the forward pass alone (the notebook itself never calls it)
Predict(x) ==
    /\ MayPredict
    /\ calls' = Append(calls, "predict")
    /\ LET d == data[x]
           a == [x |-> x, epochs |-> 0, batch_size |-> EvalBatchSize]
           e == standardize_input(d)
       IN  \/ e # "none" /\ RaiseFromCall("predict", a, e)
           \/ /\ e = "none"
              /\ call' = NewCall("predict", x, 0, EvalBatchSize, "returned")
              /\ err' = "none"
              /\ UNCHANGED <<pc, weights, history, preds, prev_preds>>
    /\ UNCHANGED <<input_shape, X, layers, data, tf_vars>>

-----------------------------------------------------------------------------
(* float32, the dtype of w and of every tensor of the tutorials' graphs.    *)
(* A float is sign * m * 2^e with m = 0 or 2^23 <= m < 2^24; results are     *)
(* rounded to nearest, ties to even.  The tutorials' values stay far from   *)
(* the exponent's limits, so overflow and subnormals are left out.          *)

MantissaBits == 24

RECURSIVE Pow2(_)
Pow2(k) == IF k = 0 THEN 1 ELSE 2 * Pow2(k - 1)

RECURSIVE BitLength(_)
BitLength(n) == IF n = 0 THEN 0 ELSE 1 + BitLength(n \div 2)

Float(s, m, e) == [s |-> s, m |-> m, e |-> e]

Zero == Float(1, 0, 0)

\* n shifted right by k bits; a bit shifted out is kept in the lowest bit ("sticky")
ShiftRightJam(n, k) ==
    IF k = 0 THEN n
    ELSE IF k > 30 THEN (IF n = 0 THEN 0 ELSE 1)
    ELSE LET q == n \div Pow2(k)
         IN  IF n % Pow2(k) # 0 /\ q % 2 = 0 THEN q + 1 ELSE q

RoundPack_Truncate(s, sig, e) ==
    IF sig = 0 THEN Zero
    ELSE LET len == BitLength(sig)
         IN  IF len <= MantissaBits
             THEN Float(s, sig * Pow2(MantissaBits - len), e - (MantissaBits - len))
             ELSE Float(s, sig \div Pow2(len - MantissaBits), e + (len - MantissaBits))

\* s * sig * 2^e rounded to 24 significant bits, ties to even
RoundPack(s, sig, e) ==
    IF sig = 0 THEN Zero
    ELSE LET len == BitLength(sig)
         IN  IF len <= MantissaBits
             THEN Float(s, sig * Pow2(MantissaBits - len), e - (MantissaBits - len))
             ELSE LET k == len - MantissaBits
                      q == sig \div Pow2(k)
                      r == sig % Pow2(k)
                      half == Pow2(k - 1)
                      m == IF r > half \/ (r = half /\ q % 2 = 1) THEN q + 1 ELSE q
                  IN  IF m = Pow2(MantissaBits)
                      THEN Float(s, Pow2(MantissaBits - 1), e + k + 1)
                      ELSE Float(s, m, e + k)

\* an integer constant of the graph (0, 2, -10., 25, 1., -20., 100) as a float32
FromInt(n) == IF n < 0 THEN RoundPack(-1, -n, 0) ELSE RoundPack(1, n, 0)

\* the float32 nearest to p / q, for 0 < p < q (0.01 is 1/100)
FromRatio(p, q) ==
    LET k == CHOOSE j \in 0..30 : (p * Pow2(j)) \div q >= Pow2(MantissaBits - 1)
        m0 == (p * Pow2(k)) \div q
        r == (p * Pow2(k)) % q
        m == IF 2 * r > q \/ (2 * r = q /\ m0 % 2 = 1) THEN m0 + 1 ELSE m0
    IN  RoundPack(1, m, -k)

Neg(a) == IF a.m = 0 THEN a ELSE Float(-a.s, a.m, a.e)

\* |a| < |b|
MagLess(a, b) ==
    IF a.m = 0 THEN b.m # 0
    ELSE IF b.m = 0 THEN FALSE
    ELSE a.e < b.e \/ (a.e = b.e /\ a.m < b.m)

\* a < b
Less(a, b) ==
    IF a.m # 0 /\ a.s = -1
    THEN (b.m = 0 \/ b.s = 1 \/ MagLess(b, a))
    ELSE (b.m # 0 /\ b.s = 1 /\ MagLess(a, b))

\* tf.add on float32 scalars: the exact sum, rounded once
tf_add(a, b) ==
    IF a.m = 0 THEN b
    ELSE IF b.m = 0 THEN a
    ELSE LET big == IF MagLess(a, b) THEN b ELSE a
             small == IF MagLess(a, b) THEN a ELSE b
             A == big.m * 64
             B == ShiftRightJam(small.m * 64, big.e - small.e)
         IN  IF a.s = b.s THEN RoundPack(big.s, A + B, big.e - 6)
             ELSE RoundPack(big.s, A - B, big.e - 6)

\* tf.multiply on float32 scalars: the exact 48-bit product, rounded once
tf_multiply(a, b) ==
    IF a.m = 0 \/ b.m = 0 THEN Zero
    ELSE LET a1 == a.m \div 4096
             a0 == a.m % 4096
             b1 == b.m \div 4096
             b0 == b.m % 4096
             mid == a1 * b0 + a0 * b1
             lowsum == (mid % 4096) * 4096 + a0 * b0
             lo == lowsum % Pow2(24)
             hi == a1 * b1 + mid \div 4096 + lowsum \div Pow2(24)
             top == hi * 64 + lo \div Pow2(18)
             sig == IF lo % Pow2(18) # 0 /\ top % 2 = 0 THEN top + 1 ELSE top
         IN  RoundPack(a.s * b.s, sig, a.e + b.e + 18)

-----------------------------------------------------------------------------
(* The tutorials' graphs *)

LearningRate == FromRatio(1, 100)       \* GradientDescentOptimizer(0.01)

TrainLoop == 1000                      \* for i in range(1000): session.run(train)

\* w = tf.Variable(0, dtype = tf.float32)
initial_value == FromInt(0)

\* coefficients = np.array([[1.], [-20.], [100]]), fed into the float32 placeholder x
coefficients == <<FromInt(1), FromInt(-20), FromInt(100)>>

\* the tensors that multiply w^2, w and 1 in the cost: constants of the graph in
\* tutorial 1 (w**2, -10., 25), the three entries of the placeholder x in tutorial 2
CostTerms(t, x) == IF t = 1 THEN <<FromInt(1), FromInt(-10), FromInt(25)>> ELSE x

\* cost = tf.add(tf.add(w**2, tf.multiply(-10., w)), 25)
\* cost = x[0][0]*w**2 + x[1][0]*w + x[2][0]
cost(t, v, x) ==
    LET c == CostTerms(t, x)
        sq == tf_multiply(v, v)
    IN  IF t = 1 THEN tf_add(tf_add(sq, tf_multiply(c[2], v)), c[3])
        ELSE tf_add(tf_add(tf_multiply(c[1], sq), tf_multiply(c[2], v)), c[3])

gradients_SquareAsLinear(t, v, x) ==
    LET c == CostTerms(t, x)
    IN  IF t = 1 THEN tf_add(v, c[2]) ELSE tf_add(tf_multiply(c[1], v), c[2])

\* d cost / d w as the graph of minimize(cost) computes it: the gradient of w**2 is
\* 2 * w, times the factor in front of it; that of the linear term is its factor
gradients(t, v, x) ==
    LET c == CostTerms(t, x)
        dsq == tf_multiply(FromInt(2), v)
    IN  IF t = 1 THEN tf_add(dsq, c[2])
        ELSE tf_add(tf_multiply(c[1], dsq), c[2])

apply_gradient_descent_Ascent(v, alpha, delta) == tf_add(v, tf_multiply(alpha, delta))

\* the update of GradientDescentOptimizer: var -= alpha * delta
apply_gradient_descent(v, alpha, delta) == tf_add(v, Neg(tf_multiply(alpha, delta)))

\* train = tf.train.GradientDescentOptimizer(0.01).minimize(cost)
train(t, v, x) == apply_gradient_descent(v, LearningRate, gradients(t, v, x))

-----------------------------------------------------------------------------
(* The tutorials' sessions *)

NoSession == [initialized |-> FALSE]

fetch_w_Consuming(s) == [s EXCEPT !.w = Zero]

\* the session after w was fetched
fetch_w(s) == s

\* session.run(init): the variables take their initial values
RunInit ==
    /\ tutorial \in {1, 2}
    /\ ~session.initialized
    /\ session' = [initialized |-> TRUE, w |-> initial_value]
    /\ fetched' = <<>>
    /\ UNCHANGED <<tutorial, runs, keras_vars>>

\* print(session.run(w))
RunW ==
    /\ tutorial \in {1, 2}
    /\ session.initialized
    /\ fetched' = <<session.w>>
    /\ session' = fetch_w(session)
    /\ UNCHANGED <<tutorial, runs, keras_vars>>

\* session.run(train), in tutorial 2 session.run(train, feed_dict = {x: coefficients}):
\* once in its own cell, then TrainLoop times in the loop
RunTrain ==
    /\ tutorial \in {1, 2}
    /\ session.initialized
    /\ runs < 1 + TrainLoop
    /\ session' = [session EXCEPT !.w = train(tutorial, @, coefficients)]
    /\ runs' = runs + 1
    /\ fetched' = <<>>
    /\ UNCHANGED <<tutorial, keras_vars>>

-----------------------------------------------------------------------------

Init ==
    /\ input_shape \in InputShapes
    /\ data \in {load_dataset} \cup SmallData
    /\ (data = load_dataset => input_shape = ImgShape)
    /\ X = <<>>
    /\ layers = <<>>
    /\ pc = "Input"
    /\ err = "none"
    /\ weights = NoWeights
    /\ call = NoCall
    /\ history = <<>>
    /\ preds = NoPreds
    /\ prev_preds = NoPreds
    /\ calls = <<>>
    /\ tutorial = 0
    /\ session = NoSession
    /\ fetched = <<>>
    /\ runs = 0

Next ==
    \/ HappyModel
    \/ Compile
    \/ Fit
    \/ \E x \in EvaluateArguments : Evaluate(x)
    \/ \E x \in {"train", "test"} : Predict(x)

Spec == Init /\ [][Next]_vars

\* the TensorFlow tutorials: each notebook is run on its own
InitTF ==
    /\ tutorial \in {1, 2}
    /\ session = NoSession
    /\ fetched = <<>>
    /\ runs = 0
    /\ input_shape = ImgShape
    /\ data = load_dataset
    /\ X = <<>>
    /\ layers = <<>>
    /\ pc = "Input"
    /\ err = "none"
    /\ weights = NoWeights
    /\ call = NoCall
    /\ history = <<>>
    /\ preds = NoPreds
    /\ prev_preds = NoPreds
    /\ calls = <<>>

NextTF == RunInit \/ RunW \/ RunTrain

SpecTF == InitTF /\ [][NextTF]_vars

-----------------------------------------------------------------------------
(* The pipeline HappyModel builds *)

\* C1 (as amended): for input shape (64,64,3) the model HappyModel returns has
\* output shape (1,), and its parameter count is
\* 32*(7*7*3+1) + 4*32 + (32*32*32*1+1) = 37,633, of which 37,569 are trainable.
C1_ShapeAndParamCount ==
    (Built /\ input_shape = <<64, 64, 3>>) =>
        /\ X = <<1>>
        /\ layers[Len(layers)].output = <<1>>
        /\ TotalParams = 32 * (7 * 7 * 3 + 1) + 4 * 32 + (32 * 32 * 32 * 1 + 1)
        /\ TotalParams = 37633
        /\ TrainableParams = 37569

C1_Witness == pc = "ready" /\ input_shape = <<64, 64, 3>> /\ TotalParams = 37633

\* C1 as stated: the parameter count equals 32*(7*7*3+1) + 2*32 + (32*32*32*1+1),
\* and that is 37,633.
C1_AsStated ==
    (Built /\ input_shape = <<64, 64, 3>>) =>
        /\ X = <<1>>
        /\ TotalParams = 32 * (7 * 7 * 3 + 1) + 2 * 32 + (32 * 32 * 32 * 1 + 1)
        /\ 32 * (7 * 7 * 3 + 1) + 2 * 32 + (32 * 32 * 32 * 1 + 1) = 37633

\* C2: every stage's output shape is the input shape of the stage after it, and for
\* input (64,64,3) the stages' output shapes are, in order, (70,70,3), (64,64,32),
\* (64,64,32), (64,64,32), (32,32,32), (32768,), (1,).
C2_StageShapesChain ==
    /\ \A i \in 1..(Len(layers) - 1) : layers[i].output = layers[i + 1].input
    /\ (Len(layers) > 0 => layers[1].input = input_shape /\ layers[1].output = input_shape)
    /\ (Built /\ input_shape = <<64, 64, 3>>) =>
           [i \in 1..7 |-> layers[i + 1].output] =
               << <<70, 70, 3>>, <<64, 64, 32>>, <<64, 64, 32>>, <<64, 64, 32>>,
                  <<32, 32, 32>>, <<32768>>, <<1>> >>

C2_Witness == Built /\ input_shape = <<64, 64, 3>> /\ Len(layers) = 8

\* the kernel or the pooling window is larger than the feature map it is applied to
WindowTooLarge(shape) ==
    /\ Len(shape) = 3
    /\ \/ shape[1] + 2 * 3 < 7 \/ shape[2] + 2 * 3 < 7
       \/ (shape[1] + 2 * 3) - 7 + 1 < 2 \/ (shape[2] + 2 * 3) - 7 + 1 < 2

\* C8: HappyModel fails with ShapeError, and returns no model, when the convolution
\* kernel or the pooling window is larger than the feature map the preceding stage
\* hands it (or the input is not of rank 3): no stage is ever built on such a map.
C8_BuildFailsOnLargeWindow ==
    /\ \A i \in 1..Len(layers) :
          /\ layers[i].name = "conv0" => layers[i].input[1] >= 7 /\ layers[i].input[2] >= 7
          /\ layers[i].name = "max_pool" => layers[i].input[1] >= 2 /\ layers[i].input[2] >= 2
          /\ \A j \in 1..Len(layers[i].output) : layers[i].output[j] >= 0
    /\ (WindowTooLarge(input_shape) \/ Len(input_shape) # 3) =>
          /\ ~Built
          /\ pc \in {"Input", "ZeroPadding2D", "conv0", "bn0", "relu", "max_pool", "failed"}
    /\ pc = "failed" =>
          /\ err = "ShapeError"
          /\ WindowTooLarge(input_shape) \/ Len(input_shape) # 3
          /\ weights.fc = 0 /\ calls = <<>>

\* the pooling window (2,2) met a 1 x 1 feature map
C8_Witness ==
    /\ pc = "failed" /\ err = "ShapeError"
    /\ Len(layers) > 0 /\ layers[Len(layers)].name = "activation_1"
    /\ X[1] < 2

-----------------------------------------------------------------------------
(* fit, evaluate and predict *)

Last(q) == q[Len(q)]

\* C3: fit called with epochs = 0 performs no optimizer update: no step of such a call
\* changes a stage parameter, and the history it returns (when the call does not raise)
\* is empty.
C3_ZeroEpochsNoUpdate ==
    /\ [](call.op = "fit" /\ call.epochs = 0 /\ call.status # "raised" =>
             /\ call.updates = 0 /\ call.seen = <<>> /\ history = <<>>
             /\ pc \in {"fit", "ready"})
    /\ [][call'.op = "fit" /\ call'.epochs = 0 /\ (call' # call \/ pc' # pc) =>
             weights' = weights /\ (call'.status # "raised" => history' = <<>>)]_vars

C3_Witness ==
    /\ call.op = "fit" /\ call.epochs = 0 /\ call.status = "returned"
    /\ data[call.x].n > 0 /\ history = <<>> /\ pc = "ready"

NoFitBetween == \A k \in (prev_preds.at + 1)..(preds.at - 1) : calls[k] # "fit"

\* C4: two consecutive evaluate calls on the same dataset, with no fit call between
\* them, return the same loss and the same accuracy.
C4_EvaluateTwiceSame ==
    (prev_preds.x # "none" /\ preds.x = prev_preds.x /\ NoFitBetween) =>
        /\ preds.loss = prev_preds.loss
        /\ preds.correct = prev_preds.correct
        /\ preds.n = prev_preds.n

C4_Witness ==
    /\ calls = <<"fit", "evaluate", "evaluate">>
    /\ prev_preds.x = "test" /\ preds.x = "test" /\ preds.n = 150
    /\ Len(history) = 40

\* C5: evaluate and predict change no stage parameter, no dataset and no training
\* history; once the model is built, stage parameters change only in a batch step of
\* a running fit call.
C5_EvaluateForwardPure ==
    [][ /\ (calls' # calls /\ Last(calls') \in {"evaluate", "predict"}) =>
              /\ weights' = weights /\ data' = data /\ history' = history
              /\ layers' = layers /\ input_shape' = input_shape
        /\ (Built /\ weights' # weights) =>
              /\ pc = "fit" /\ call.op = "fit" /\ call.status = "running"
              /\ call'.updates = call.updates + 1
        /\ data' = data ]_vars

C5_Witness ==
    /\ calls = <<"fit", "evaluate">> /\ call.op = "evaluate" /\ call.status = "returned"
    /\ Len(history) > 0 /\ preds.n > 0

\* the batches q, in order, cut the examples 0..n-1 into consecutive slices of b
\* examples, the last one possibly shorter
OrderedPartition(q, n, b) ==
    /\ \A i \in 0..(n - 1) :
          Cardinality({k \in 1..Len(q) : q[k].start <= i /\ i < q[k].end}) = 1
    /\ \A k \in 1..Len(q) :
          /\ 0 <= q[k].start /\ q[k].start < q[k].end /\ q[k].end <= n
          /\ k < Len(q) => q[k].end - q[k].start = b /\ q[k].end = q[k + 1].start
          /\ k = Len(q) => q[k].end - q[k].start <= b
    /\ (n = 0 => q = <<>>)

\* C6: in every epoch of fit the batches are an ordered, non-overlapping partition of
\* the training set: each example is in exactly one batch, every batch but the last
\* holds batch_size examples, the last is non-empty and may be shorter; for 600
\* examples and batch_size 16 that is 38 batches, the last of 8 examples.
C6_BatchesPartitionEpoch ==
    (pc = "fit" /\ call.status = "running") =>
        LET n == data[call.x].n
            b == call.batch_size
            q == call.seen
        IN  /\ Len(q) = call.batch
            /\ \A k \in 1..Len(q) :
                  /\ q[k].start = (k - 1) * b
                  /\ q[k].start < q[k].end /\ q[k].end <= n
                  /\ q[k].end < n => q[k].end - q[k].start = b
            \* all the batches of the epoch have been run
            /\ (MoreEpochs /\ call.batch = Len(Batches)) =>
                  /\ OrderedPartition(q, n, b)
                  /\ (n = 600 /\ b = 16) =>
                        Len(q) = 38 /\ q[38].end - q[38].start = 8
            /\ \A e \in 1..Len(history) : history[e].samples = n

C6_Witness ==
    /\ Notebook /\ pc = "fit" /\ call.epoch = 39 /\ call.batch = 38
    /\ Len(call.seen) = 38 /\ call.seen[38] = [start |-> 592, end |-> 600]

C9_ErrorsAbortCall ==
    /\ [](call.status = "raised" =>
             /\ pc = "ready" /\ err \in {"ShapeError", "DataError"}
             /\ call.updates = 0 /\ call.batch = 0 /\ call.epoch = 0 /\ call.seen = <<>>)
    /\ [](call.op \in {"fit", "evaluate", "predict"} /\ data[call.x].shape # input_shape =>
             call.status = "raised" /\ err = "ShapeError")
    /\ [](call.op \in {"fit", "evaluate"} /\ data[call.x].shape = input_shape
           /\ data[call.x].ny # data[call.x].n =>
             call.status = "raised" /\ err = "DataError")
    /\ [][(call.status = "raised" /\ calls' = calls) => UNCHANGED vars]_vars
    /\ [][call'.status = "raised" => UNCHANGED <<weights, history, preds, prev_preds>>]_vars
    /\ [][pc = "failed" => UNCHANGED vars]_vars

C9_Witness ==
    /\ calls = <<"fit", "predict">> /\ call.op = "predict" /\ call.status = "raised"
    /\ err = "ShapeError" /\ data["train"].shape # input_shape

\* C10: evaluate on a non-empty dataset returns a loss >= 0 and an accuracy in [0,1]:
\* the number of examples whose thresholded sigmoid output equals the label, over the
\* number of examples (150 for the notebook's test set).
C10_EvaluateAccuracyLoss ==
    (call.op = "evaluate" /\ call.status = "returned" /\ data[call.x].n > 0) =>
        LET d == data[call.x]
        IN  /\ preds.x = call.x /\ preds.n = d.n
            /\ preds.loss >= 0
            /\ 0 <= preds.correct /\ preds.correct <= preds.n
            /\ preds.correct =
                  Cardinality({i \in 0..(d.n - 1) :
                      (IF Logit(weights, Feature(d, i)) > 0 THEN 1 ELSE 0) = Label(d, i)})
            /\ (Notebook => preds.n = 150)

C10_Witness ==
    /\ Notebook /\ call.op = "evaluate" /\ call.status = "returned"
    /\ preds.n = 150 /\ preds.correct > 0 /\ preds.correct < 150 /\ preds.loss > 0

\* C11: a fit call on a model that was trained before starts from the parameters the
\* earlier call left: starting fit does not change (reinitialize) a parameter, nor does
\* the return of fit or any call made on the returned model before training resumes, so
\* the parameters at the start of the second call are those at the end of the first.
C11_SecondFitContinues ==
    [][ /\ (calls' # calls /\ Last(calls') = "fit") => weights' = weights
        /\ (pc = "fit" /\ pc' = "ready") => weights' = weights
        /\ pc = "ready" => weights' = weights ]_vars

\* the second fit call is about to run its first batch on parameters only training
\* produces (bn0's gamma is initialized to 1)
C11_Witness ==
    /\ calls = <<"fit", "fit">> /\ call.op = "fit" /\ call.status = "running"
    /\ call.epochs > 0 /\ call.updates = 0 /\ weights.bn0 = -1

CeilDiv(n, b) == (n \div b) + (IF n % b = 0 THEN 0 ELSE 1)

\* C15: during fit every batch makes exactly one optimizer update, and only a batch
\* does; batches and epochs are run one after the other; the epoch counter and the
\* history change together, once per epoch, after the epoch's last batch.  A fit call
\* with E epochs on N examples with batch size B makes E * ceil(N/B) updates and
\* returns a history of E entries (40 entries and 40 * 38 updates in the notebook).
C15_UpdatesAndHistory ==
    /\ [](call.op = "fit" /\ call.status \in {"running", "returned"} =>
            LET nb == CeilDiv(data[call.x].n, call.batch_size)
            IN  /\ call.updates = call.epoch * nb + call.batch
                /\ call.batch <= nb /\ call.epoch <= call.epochs
                /\ Len(history) = call.epoch
                /\ \A e \in 1..Len(history) : history[e].epoch = e
                /\ call.status = "returned" =>
                      /\ call.updates = call.epochs * nb
                      /\ Len(history) = call.epochs
                      /\ Notebook => Len(history) = 40 /\ call.updates = 40 * 38)
    /\ [][(Built /\ weights' # weights) =>
             /\ call'.updates = call.updates + 1 /\ call'.batch = call.batch + 1
             /\ call'.epoch = call.epoch /\ history' = history]_vars
    /\ [][(calls' = calls /\ call'.updates # call.updates) =>
             call'.updates = call.updates + 1 /\ call'.batch = call.batch + 1]_vars
    /\ [][(calls' = calls /\ (history' # history \/ call'.epoch # call.epoch)) =>
             /\ call.batch = CeilDiv(data[call.x].n, call.batch_size)
             /\ call'.epoch = call.epoch + 1 /\ call'.batch = 0
             /\ Len(history') = Len(history) + 1
             /\ \A e \in 1..Len(history) : history'[e] = history[e]
             /\ weights' = weights /\ call'.updates = call.updates]_vars

C15_Witness ==
    /\ Notebook /\ call.op = "fit" /\ call.status = "returned"
    /\ Len(history) = 40 /\ call.updates = 1520

-----------------------------------------------------------------------------
(* The TensorFlow tutorials (under SpecTF) *)

\* the value of an integral float as an integer
IntValue(f) == IF f.e >= 0 THEN f.s * f.m * Pow2(f.e) ELSE f.s * (f.m \div Pow2(-f.e))

\* a float of the tutorials' range (0, or at least 2^-4 and below 16) in units of 2^-27
Units(f) == IF f.e >= -27 THEN f.s * f.m * Pow2(f.e + 27)
            ELSE f.s * (f.m \div Pow2(-27 - f.e))

RECURSIVE Scale(_, _, _)
Scale(i, frac, k) ==
    IF k = 0 THEN (IF 2 * frac >= Pow2(27) THEN i + 1 ELSE i)
    ELSE Scale(10 * i + (10 * frac) \div Pow2(27), (10 * frac) % Pow2(27), k - 1)

\* a non-negative float times 10^k, to the nearest integer: its print to k decimals
Printed(f, k) == Scale(Units(f) \div Pow2(27), Units(f) % Pow2(27), k)

\* the w for which the cost c1 * w^2 + c2 * w + c3 is least: -c2 / (2 * c1)
Minimizer(t) ==
    LET c == CostTerms(t, coefficients)
    IN  FromInt((-IntValue(c[2])) \div (2 * IntValue(c[1])))

\* the distance of w to the minimizer, in units of 2^-27; the exact cost is its square
Distance(t, v) ==
    LET d == Units(Minimizer(t)) - Units(v) IN IF d < 0 THEN -d ELSE d

\* C12 (as amended): in tutorial 1, after session.run(init) and before any run of
\* train, w evaluates to its initial value 0; evaluating w never changes it; and the
\* first run of train moves w from 0 to the float32 0.099999994, which is not 0.1 (the
\* float32 nearest to 0.1 is the next one up) but less than 1e-8 below it.
C12_InitialValueAndFirstStep ==
    /\ [](tutorial = 1 /\ session.initialized /\ runs = 0 =>
            /\ session.w = Zero /\ Printed(session.w, 1) = 0
            /\ fetched \in {<<>>, <<Zero>>})
    /\ [][(session.initialized /\ runs' = runs) =>
             session' = session /\ fetched' = <<session.w>>]_vars
    /\ [](tutorial = 1 /\ runs = 1 =>
            /\ session.w = Float(1, 13421772, -27)
            /\ Printed(session.w, 9) = 99999994
            /\ session.w # FromRatio(1, 10) /\ Less(session.w, FromRatio(1, 10))
            /\ Pow2(27) - 10 * Units(session.w) \in 1..13)

C12_Witness ==
    /\ tutorial = 1 /\ runs = 1 /\ fetched = <<session.w>>
    /\ Printed(session.w, 9) = 99999994

\* C12 as stated: the first run of train moves w from 0 to 0.1.
C12_AsStated ==
    (tutorial = 1 /\ runs = 1) => session.w = FromRatio(1, 10)

\* C13: in tutorial 1, after the 1 + 1000 runs of train from w = 0, w is within 1e-4
\* of 5, the minimizer of the cost w^2 - 10w + 25 = (w-5)^2: it is the float32 printed
\* as 4.9999886.
C13_Tutorial1ReachesOptimum ==
    /\ \A v \in 0..10 : v * v - 10 * v + 25 = (v - 5) * (v - 5)
    /\ (tutorial = 1 /\ runs = 1 + 1000) =>
          /\ session.w = Float(1, 10485736, -21)
          /\ Printed(session.w, 7) = 49999886
          /\ Minimizer(1) = FromInt(5)
          /\ 10000 * Distance(1, session.w) < Pow2(27)

C13_Witness ==
    /\ tutorial = 1 /\ runs = 1001 /\ fetched = <<session.w>>
    /\ Printed(session.w, 7) = 49999886

C16_MonotoneUntilFixedPoint ==
    /\ [](session.initialized =>
            /\ ~Less(Minimizer(tutorial), session.w)
            /\ ~Less(session.w, Zero))
    /\ [][runs' = runs + 1 =>
             /\ ~Less(session'.w, session.w)
             /\ (runs < 636 => Less(session.w, session'.w))
             /\ (runs >= 636 => session'.w = session.w)
             /\ Distance(tutorial, session'.w) <= Distance(tutorial, session.w)]_vars

\* a run of train that left w where it was
C16_Witness ==
    /\ runs = 637 /\ session.w = train(tutorial, session.w, coefficients)
    /\ Less(session.w, Minimizer(tutorial))

\* C16 as stated: after any number of train runs w is strictly greater than before
\* the last run, never exceeds the minimizer, and the cost never increases.
C16_AsStated ==
    [][runs' = runs + 1 =>
          /\ Less(session.w, session'.w)
          /\ ~Less(Minimizer(tutorial), session'.w)
          /\ Distance(tutorial, session'.w) <= Distance(tutorial, session.w)]_vars

====
